---- MODULE Spec2Model ----
(***************************************************************************)
(* CISSP adaptive practice exam (src/cissp_app.py): the adaptive           *)
(* difficulty engine (CATEngine), the question sources (static bank,       *)
(* generative provider, hybrid) and the Streamlit session that drives      *)
(* them.                                                                   *)
(*                                                                         *)
(* Python values are represented as follows.                               *)
(*   None / a value        the empty sequence <<>> / the sequence <<v>>    *)
(*   dict                  a record; d.get(k) tests k \in DOMAIN d         *)
(*   float theta           an integer number of 1/Scale units              *)
(*   random.choice(pool)   \E over the elements of pool                    *)
(***************************************************************************)
EXTENDS Integers, Sequences, FiniteSets, TLC

VARIABLES
    bank,             \* load_question_bank(): the cached list of bank records
    client,           \* get_client(): TRUE when the cached client is not None
    off,              \* one call of get_offline_question: its inputs and result
    gen,              \* one call of generate_question_ai: the retry loop's state
    screen,           \* st.session_state.screen
    cat,              \* st.session_state.cat: [theta, responses]
    questions,        \* st.session_state.questions
    current_idx,      \* st.session_state.current_idx
    selected_answer,  \* st.session_state.selected_answer (Option)
    show_explanation, \* st.session_state.show_explanation
    flagged,          \* st.session_state.flagged
    config,           \* st.session_state.config
    domain_cycle,     \* st.session_state.domain_cycle
    used_topics,      \* st.session_state.used_topics
    used_ids,         \* st.session_state.used_ids
    q_answered,       \* st.session_state.q_answered
    error_msg,        \* st.session_state.error_msg (Option)
    expired,          \* time.time() - start_time has reached config.timer_secs
    rerun,            \* a script run is pending (st.rerun() was called)
    log               \* history: the bank ids served, the questions answered
                      \* and the domains picked in this session, and whether
                      \* the test was started after an earlier one

procVars == <<bank, client>>
sessVars == <<screen, cat, questions, current_idx, selected_answer,
              show_explanation, flagged, config, domain_cycle, used_topics,
              used_ids, q_answered, error_msg, expired, rerun, log>>
vars == <<procVars, off, gen, sessVars>>

None == <<>>
Some(v) == <<v>>

(***************************************************************************)
(* Bounds of the model.                                                    *)
(***************************************************************************)
MaxBank == 2        \* longest bank drawn for a call of get_offline_question
MaxQCount == 2      \* the configured question count of a session
\* cat.update is not followed beyond this many responses
MaxResponses == MaxQCount + 1
\* _load_next_question is not followed beyond this many calls
MaxFetches == MaxQCount + 2
MaxStreak == 19     \* longest run of equal updates an engine starts from
MaxUpdates == 3     \* updates followed from there, of any tier and outcome

(***************************************************************************)
(* DATA (src/cissp_app.py:30-53).                                          *)
(***************************************************************************)
DOMAINS ==
    [d \in 1..8 |->
        CASE d = 1 -> <<"risk management", "BIA", "threat modeling", "security policies",
                        "ALE calculations", "business continuity", "legal regulations", "due care">>
          [] d = 2 -> <<"data classification", "data lifecycle", "media sanitization",
                        "data ownership", "privacy protection", "data remanence", "retention policies">>
          [] d = 3 -> <<"cryptography", "PKI", "security models", "Bell-LaPadula", "Biba",
                        "Clark-Wilson", "TPM", "cloud security", "secure design principles">>
          [] d = 4 -> <<"OSI model", "firewalls", "VPN", "IPSec", "TLS", "wireless security",
                        "DMZ", "network attacks", "VLAN", "network protocols">>
          [] d = 5 -> <<"authentication", "MFA", "SSO", "SAML", "OAuth", "Kerberos", "RBAC",
                        "MAC", "DAC", "provisioning", "identity federation">>
          [] d = 6 -> <<"penetration testing", "vulnerability assessment", "security audits",
                        "CVSS", "log review", "black box testing", "OWASP", "SOC reports">>
          [] d = 7 -> <<"incident response", "digital forensics", "disaster recovery",
                        "backup strategies", "SIEM", "chain of custody", "RTO RPO", "change management">>
          [] d = 8 -> <<"SDLC", "DevSecOps", "OWASP Top 10", "secure coding", "input validation",
                        "static analysis", "software testing", "application threats">>]

Tiers == {"easy", "medium", "hard"}

Scale == 10^4       \* theta, b and p are held in units of 1/Scale

DIFFICULTIES ==
    [t \in Tiers |->
        CASE t = "easy"   -> [theta |-> -(15 * Scale) \div 10]
          [] t = "medium" -> [theta |-> 0]
          [] t = "hard"   -> [theta |-> (15 * Scale) \div 10]]

Range(s) == {s[i] : i \in DOMAIN s}

Get(d, k, default) == IF k \in DOMAIN d THEN d[k] ELSE default

(***************************************************************************)
(* QUESTION BANK (src/cissp_app.py:81-124).                                *)
(* A bank record always holds question, options and answer; domain,        *)
(* difficulty, topic and id are optional keys.                             *)
(***************************************************************************)
Matches(q, k, v) == k \in DOMAIN q /\ q[k] = v

\* q.get("id") not in used_ids
IdNotUsed(q, ids) == ~("id" \in DOMAIN q /\ q.id \in ids)

ExactPool(bk, domain_id, difficulty, ids) ==
    LET T(q) == Matches(q, "domain", domain_id)
                /\ Matches(q, "difficulty", difficulty)
                /\ IdNotUsed(q, ids)
    IN  SelectSeq(bk, T)

\* mutant of DomainPool: the domain test is lost
DomainPoolAnyDomain(bk, domain_id, ids) ==
    LET T(q) == IdNotUsed(q, ids)
    IN  SelectSeq(bk, T)

DomainPool(bk, domain_id, ids) ==
    LET T(q) == Matches(q, "domain", domain_id) /\ IdNotUsed(q, ids)
    IN  SelectSeq(bk, T)

UnusedPool(bk, ids) ==
    LET T(q) == IdNotUsed(q, ids)
    IN  SelectSeq(bk, T)

\* mutant of OfflinePool: the last fallback (the entire bank) is lost
OfflinePoolNoRepeats(bk, domain_id, difficulty, ids) ==
    IF bk = <<>> THEN <<>>
    ELSE IF ExactPool(bk, domain_id, difficulty, ids) # <<>>
         THEN ExactPool(bk, domain_id, difficulty, ids)
    ELSE IF DomainPool(bk, domain_id, ids) # <<>>
         THEN DomainPool(bk, domain_id, ids)
    ELSE UnusedPool(bk, ids)

\* the pool random.choice draws from; <<>> when the function returns None
OfflinePool(bk, domain_id, difficulty, ids) ==
    IF bk = <<>> THEN <<>>
    ELSE IF ExactPool(bk, domain_id, difficulty, ids) # <<>>
         THEN ExactPool(bk, domain_id, difficulty, ids)
    ELSE IF DomainPool(bk, domain_id, ids) # <<>>
         THEN DomainPool(bk, domain_id, ids)
    ELSE IF UnusedPool(bk, ids) # <<>>
         THEN UnusedPool(bk, ids)
    ELSE bk

\* the dict built from the chosen record (it has no "id" key)
OfflineQuestion(raw, domain_id, difficulty) ==
    [domain_id   |-> Get(raw, "domain", domain_id),
     difficulty  |-> Get(raw, "difficulty", difficulty),
     topic       |-> Get(raw, "topic", ""),
     question    |-> raw.question,
     options     |-> raw.options,
     answer      |-> raw.answer,
     explanation |-> Get(raw, "explanation", "No explanation provided."),
     source      |-> "offline"]

\* get_offline_question with random.choice resolved to index i of the pool:
\* None for an empty bank, else the question built from the record drawn
get_offline_question(bk, domain_id, difficulty, ids, i) ==
    LET pool == OfflinePool(bk, domain_id, difficulty, ids)
    IN  IF pool = <<>> THEN None
        ELSE Some(OfflineQuestion(pool[i], domain_id, difficulty))

\* the indices random.choice can draw (one dummy index when there is no pool)
Draws(bk, domain_id, difficulty, ids) ==
    LET pool == OfflinePool(bk, domain_id, difficulty, ids)
    IN  IF pool = <<>> THEN {1} ELSE DOMAIN pool

(***************************************************************************)
(* CAT ENGINE (src/cissp_app.py:130-176).  Floats are fixed-point numbers   *)
(* in units of 1/Scale; exp is computed by range reduction and a Taylor    *)
(* polynomial, every intermediate product below 2^31.                      *)
(***************************************************************************)
Min(a, b) == IF a < b THEN a ELSE b
Max(a, b) == IF a > b THEN a ELSE b

Ln2 == (6931 * Scale) \div 10^4

\* math.exp(-y) for y >= 0
ExpNeg(y) ==
    LET k  == y \div Ln2
        r  == y % Ln2
        t2 == (r * r) \div (2 * Scale)
        t3 == (t2 * r) \div (3 * Scale)
        t4 == (t3 * r) \div (4 * Scale)
        t5 == (t4 * r) \div (5 * Scale)
        t6 == (t5 * r) \div (6 * Scale)
    IN  (Scale - r + t2 - t3 + t4 - t5 + t6) \div 2^k

\* 1 / (1 + math.exp(-x))
Logistic(x) ==
    IF x >= 0 THEN (Scale * Scale) \div (Scale + ExpNeg(x))
    ELSE (ExpNeg(-x) * Scale) \div (Scale + ExpNeg(-x))

CATEngine(starting_difficulty) ==
    [theta |-> DIFFICULTIES[starting_difficulty].theta, responses |-> <<>>]

\* variant of probability: no guessing floor (c = 0)
probabilityNoGuess(c, b) == Logistic((12 * (c.theta - b)) \div 10)

\* probability(b, a=1.2, c=0.25)
probability(c, b) ==
    Scale \div 4 + ((Scale - Scale \div 4) * Logistic((12 * (c.theta - b)) \div 10)) \div Scale

\* variant of update: theta is not clamped
updateUnclamped(c, difficulty, correct) ==
    LET b    == DIFFICULTIES[difficulty].theta
        p    == probability(c, b)
        step == IF correct THEN (4 * (Scale - p)) \div 10 ELSE -((4 * p) \div 10)
        th   == c.theta + step
    IN  [theta |-> th,
         responses |-> Append(c.responses,
                              [difficulty |-> difficulty, correct |-> correct, theta |-> th])]

\* variant of update: the step is ten times as large
updateBigStep(c, difficulty, correct) ==
    LET b    == DIFFICULTIES[difficulty].theta
        p    == probability(c, b)
        step == IF correct THEN 4 * (Scale - p) ELSE -(4 * p)
        th   == Max(-3 * Scale, Min(3 * Scale, c.theta + step))
    IN  [theta |-> th,
         responses |-> Append(c.responses,
                              [difficulty |-> difficulty, correct |-> correct, theta |-> th])]

\* variant of update: theta goes up on an incorrect answer too
updateAlwaysUp(c, difficulty, correct) ==
    LET b    == DIFFICULTIES[difficulty].theta
        p    == probability(c, b)
        step == (4 * (Scale - p)) \div 10
        th   == Max(-3 * Scale, Min(3 * Scale, c.theta + step))
    IN  [theta |-> th,
         responses |-> Append(c.responses,
                              [difficulty |-> difficulty, correct |-> correct, theta |-> th])]

update(c, difficulty, correct) ==
    LET b    == DIFFICULTIES[difficulty].theta
        p    == probability(c, b)
        step == IF correct THEN (4 * (Scale - p)) \div 10 ELSE -((4 * p) \div 10)
        th   == Max(-3 * Scale, Min(3 * Scale, c.theta + step))
    IN  [theta |-> th,
         responses |-> Append(c.responses,
                              [difficulty |-> difficulty, correct |-> correct, theta |-> th])]

\* variant of next_difficulty: no warm-up
next_difficultyNoWarmup(c) ==
    IF c.theta >= (8 * Scale) \div 10 THEN "hard"
    ELSE IF c.theta <= -((8 * Scale) \div 10) THEN "easy"
    ELSE "medium"

next_difficulty(c) ==
    IF Len(c.responses) < 2 THEN "medium"
    ELSE IF c.theta >= (8 * Scale) \div 10 THEN "hard"
    ELSE IF c.theta <= -((8 * Scale) \div 10) THEN "easy"
    ELSE "medium"

\* round(n / d * 100) for 0 <= n <= d, d > 0: halves go to the even integer
RoundPct(n, d) ==
    LET q == (100 * n) \div d
        r == (100 * n) % d
    IN  IF 2 * r < d THEN q
        ELSE IF 2 * r > d THEN q + 1
        ELSE IF q % 2 = 0 THEN q ELSE q + 1

\* sum(1 for r in rs if r["correct"])
CorrectOf(rs) == Cardinality({i \in DOMAIN rs : rs[i].correct})

\* [r for r in rs if r["difficulty"] == d]
OfDifficulty(rs, d) == SelectSeq(rs, LAMBDA r : r.difficulty = d)

\* variant of stats: theta_history without the baseline
statsNoBaseline(c) ==
    [total |-> Len(c.responses),
     theta_history |-> [i \in DOMAIN c.responses |-> c.responses[i].theta]]

stats(c) ==
    LET total   == Len(c.responses)
        correct == CorrectOf(c.responses)
    IN  [total |-> total,
         correct |-> correct,
         pct |-> IF total # 0 THEN RoundPct(correct, total) ELSE 0,
         by_diff |-> [d \in Tiers |->
                        [total   |-> Len(OfDifficulty(c.responses, d)),
                         correct |-> CorrectOf(OfDifficulty(c.responses, d))]],
         theta_history |-> <<0>> \o [i \in DOMAIN c.responses |-> c.responses[i].theta]]

(***************************************************************************)
(* CLAUDE AI (src/cissp_app.py:192-256).                                   *)
(* A provider reply is one of                                              *)
(*   [kind |-> "error", msg]   client.messages.create raised                *)
(*   [kind |-> "text",  msg]   the cleaned text is rejected by json.loads   *)
(*   [kind |-> "json",  data]  json.loads returned the dict data            *)
(* msg is str(e) of the exception raised.                                   *)
(***************************************************************************)
NoClientMsg == "No API client available - check ANTHROPIC_API_KEY in Secrets."
ExhaustedMsg == "AI generation failed after 3 attempts: "

\* variant of Recent: a window of 3
RecentLast3(topics) ==
    IF Len(topics) >= 3 THEN SubSeq(topics, Len(topics) - 2, Len(topics)) ELSE topics

\* used_topics[-4:] if len(used_topics) >= 4 else used_topics
Recent(topics) ==
    IF Len(topics) >= 4 THEN SubSeq(topics, Len(topics) - 3, Len(topics)) ELSE topics

\* the list random.choice draws the topic from
TopicPool(domain_id, topics) ==
    LET T(t) == t \notin Range(Recent(topics))
        available == SelectSeq(DOMAINS[domain_id], T)
    IN  IF available # <<>> THEN available ELSE DOMAINS[domain_id]

\* the body of the try block: [ok |-> TRUE, q] or [ok |-> FALSE, msg |-> str(e)]
ParseReply(reply, domain_id, difficulty, topic) ==
    IF reply.kind # "json" THEN [ok |-> FALSE, msg |-> reply.msg]
    ELSE LET data == reply.data IN
         IF "options" \notin DOMAIN data THEN [ok |-> FALSE, msg |-> "'options'"]
         ELSE IF Len(data.options) # 4 THEN [ok |-> FALSE, msg |-> ""]
         ELSE IF "answer" \notin DOMAIN data THEN [ok |-> FALSE, msg |-> "'answer'"]
         ELSE IF data.answer \notin {0, 1, 2, 3} THEN [ok |-> FALSE, msg |-> ""]
         ELSE IF "question" \notin DOMAIN data THEN [ok |-> FALSE, msg |-> "'question'"]
         ELSE IF "explanation" \notin DOMAIN data
              THEN [ok |-> FALSE, msg |-> "'explanation'"]
         ELSE [ok |-> TRUE,
               q  |-> [domain_id   |-> domain_id,
                       difficulty  |-> difficulty,
                       topic       |-> Get(data, "topic", topic),
                       question    |-> data.question,
                       options     |-> data.options,
                       answer      |-> data.answer,
                       explanation |-> data.explanation,
                       source      |-> "ai"]]

\* mutant of GenBegin: the client is not checked
GenBeginUnchecked(domain_id, difficulty, topics, has_client, topic) ==
    [domain_id |-> domain_id, difficulty |-> difficulty, used_topics |-> topics,
     topic |-> Some(topic), pc |-> "attempt",
     attempt |-> 1, calls |-> 0, sleeps |-> 0,
     last_error |-> None, failures |-> <<>>, result |-> None, error |-> None]

\* lines 194-224: the client check, the topic draw, the loop's initial state.
\* pc: "attempt" (about to call the provider), "sleep" (in time.sleep),
\* "returned", "raised".  failures lists str(e) of every failed attempt.
GenBegin(domain_id, difficulty, topics, has_client, topic) ==
    [domain_id |-> domain_id, difficulty |-> difficulty, used_topics |-> topics,
     topic |-> IF has_client THEN Some(topic) ELSE None,
     pc |-> IF has_client THEN "attempt" ELSE "raised",
     attempt |-> 1, calls |-> 0, sleeps |-> 0,
     last_error |-> None, failures |-> <<>>, result |-> None,
     error |-> IF has_client THEN None ELSE Some(<<NoClientMsg>>)]

\* mutant of LastError: the first failure is kept
LastErrorFirst(g, msg) == IF g.last_error = None THEN Some(msg) ELSE g.last_error

\* what the except clause stores in last_error
LastError(g, msg) == Some(msg)

\* mutant of SleepsAfter: the loop sleeps after every failure
SleepsAlways(attempt) == TRUE

\* whether the except clause sleeps: attempt < 3
SleepsAfter(attempt) == attempt < 3

\* whether the for loop has an iteration k: k in range(1, 4)
InRange(k) == k \in 1..3

\* the loop goes to its next iteration, or ends and the final raise is reached
GenAdvance(g) ==
    IF InRange(g.attempt + 1)
    THEN [g EXCEPT !.attempt = @ + 1, !.pc = "attempt"]
    ELSE [g EXCEPT !.pc = "raised",
                   !.error = Some(<<ExhaustedMsg, g.last_error[1]>>)]

\* one iteration of the for loop, up to its return or to the sleep
GenTry(g, reply) ==
    LET r == ParseReply(reply, g.domain_id, g.difficulty, g.topic[1]) IN
    IF r.ok
    THEN [g EXCEPT !.calls = @ + 1, !.pc = "returned", !.result = Some(r.q)]
    ELSE LET h == [g EXCEPT !.calls = @ + 1,
                            !.last_error = LastError(g, r.msg),
                            !.failures = Append(@, r.msg)]
         IN  IF SleepsAfter(g.attempt) THEN [h EXCEPT !.pc = "sleep"]
             ELSE GenAdvance(h)

\* time.sleep(1.5) returns
GenWait(g) == GenAdvance([g EXCEPT !.sleeps = @ + 1])

GenDone(g) == g.pc \in {"returned", "raised"}

\* the whole call, the provider answering attempt k with replies[k]
RECURSIVE GenRun(_, _)
GenRun(g, replies) ==
    IF g.pc = "attempt" THEN GenRun(GenTry(g, replies[g.attempt]), replies)
    ELSE IF g.pc = "sleep" THEN GenRun(GenWait(g), replies)
    ELSE g

(***************************************************************************)
(* get_question (src/cissp_app.py:259-281).  An outcome of a call is        *)
(*   [ok, q, msg, raw, offline_calls, gen_calls, provider_calls, sleeps]    *)
(* q the question returned, msg the text of the exception raised, raw the   *)
(* bank record drawn; the counters say which sources the call went through. *)
(***************************************************************************)
EmptyBankMsg == "Question bank is empty or cissp_questions.json not found."

\* the outcome of a finished call of generate_question_ai
GenOutcome(g, offline_calls) ==
    [ok |-> g.pc = "returned", q |-> g.result, msg |-> g.error, raw |-> None,
     offline_calls |-> offline_calls, gen_calls |-> 1,
     provider_calls |-> g.calls, sleeps |-> g.sleeps]

\* generate_question_ai(domain_id, difficulty, used_topics), for every topic
\* drawn and every three replies of the provider
GenOutcomes(domain_id, difficulty, topics, has_client, replies, offline_calls) ==
    LET pool == TopicPool(domain_id, topics) IN
    {GenOutcome(GenRun(GenBegin(domain_id, difficulty, topics, has_client, pool[i]), rs),
                offline_calls) :
        i \in {1, Len(pool)}, rs \in [1..3 -> replies]}

\* the outcome of get_offline_question(...) drawing index i, as `otherwise`
\* when it returns None
OfflineOutcome(bk, domain_id, difficulty, ids, i, otherwise) ==
    LET q == get_offline_question(bk, domain_id, difficulty, ids, i) IN
    IF q = None THEN otherwise
    ELSE {[ok |-> TRUE, q |-> q, msg |-> None,
           raw |-> Some(OfflinePool(bk, domain_id, difficulty, ids)[i]),
           offline_calls |-> 1, gen_calls |-> 0, provider_calls |-> 0, sleeps |-> 0]}

EmptyBankError ==
    {[ok |-> FALSE, q |-> None, msg |-> Some(<<EmptyBankMsg>>), raw |-> None,
      offline_calls |-> 1, gen_calls |-> 0, provider_calls |-> 0, sleeps |-> 0]}

\* in a session and in a call of get_question random.choice draws the first
\* or the last element of its list
SessionDraws(bk, domain_id, difficulty, ids) ==
    LET pool == OfflinePool(bk, domain_id, difficulty, ids)
    IN  IF pool = <<>> THEN {1} ELSE {1, Len(pool)}

\* mutant of OfflineMode: an empty bank falls back to the provider
OfflineModeFallsBack(bk, has_client, replies, domain_id, difficulty, topics, ids) ==
    UNION {OfflineOutcome(bk, domain_id, difficulty, ids, i,
                          GenOutcomes(domain_id, difficulty, topics, has_client, replies, 1)) :
              i \in SessionDraws(bk, domain_id, difficulty, ids)}

\* mode == "offline"
OfflineMode(bk, has_client, replies, domain_id, difficulty, topics, ids) ==
    UNION {OfflineOutcome(bk, domain_id, difficulty, ids, i, EmptyBankError) :
              i \in SessionDraws(bk, domain_id, difficulty, ids)}

\* mutant of HybridMode: a bank question of another domain than the one
\* requested is dropped for a generated one
HybridModeOnMismatch(bk, has_client, replies, domain_id, difficulty, topics, ids) ==
    LET ai == GenOutcomes(domain_id, difficulty, topics, has_client, replies, 1) IN
    UNION {LET o == OfflineOutcome(bk, domain_id, difficulty, ids, i, ai) IN
           IF \E x \in o : x.gen_calls = 0 /\ x.q[1].domain_id # domain_id THEN ai ELSE o :
              i \in SessionDraws(bk, domain_id, difficulty, ids)}

\* hybrid: offline first, the provider when get_offline_question returns None
HybridMode(bk, has_client, replies, domain_id, difficulty, topics, ids) ==
    UNION {OfflineOutcome(bk, domain_id, difficulty, ids, i,
                          GenOutcomes(domain_id, difficulty, topics, has_client, replies, 1)) :
              i \in SessionDraws(bk, domain_id, difficulty, ids)}

get_question(bk, has_client, replies, domain_id, difficulty, topics, ids, mode) ==
    IF mode = "online"
    THEN GenOutcomes(domain_id, difficulty, topics, has_client, replies, 0)
    ELSE IF mode = "offline"
    THEN OfflineMode(bk, has_client, replies, domain_id, difficulty, topics, ids)
    ELSE HybridMode(bk, has_client, replies, domain_id, difficulty, topics, ids)

(***************************************************************************)
(* Inputs of the model: bank records, provider replies, requests.          *)
(***************************************************************************)
Opts3 == <<"A", "B", "C">>
Opts4 == <<"A", "B", "C", "D">>

Rec(d, t, i) ==
    [id |-> i, domain |-> d, difficulty |-> t, topic |-> DOMAINS[d][i],
     question |-> "Q", options |-> Opts4, answer |-> 0, explanation |-> "E"]

RecNoId == [domain |-> 1, difficulty |-> "easy",
            question |-> "Q", options |-> Opts4, answer |-> 3]

RecBare == [question |-> "Q", options |-> Opts4, answer |-> 3]

BankIds == {1, 2}
BankDomains == {1, 2}

BankRecords ==
    {Rec(d, t, i) : d \in BankDomains, t \in {"easy", "hard"}, i \in BankIds}
    \cup {RecNoId, RecBare}

Banks == UNION {[1..n -> BankRecords] : n \in 0..MaxBank}

GoodData == [question |-> "Q", options |-> Opts4, answer |-> 0, explanation |-> "E"]

Replies ==
    {[kind |-> "error", msg |-> "Connection error."],
     [kind |-> "text",  msg |-> "Expecting value: line 1 column 1 (char 0)"],
     [kind |-> "json",  data |-> [GoodData EXCEPT !.options = Opts3]],
     [kind |-> "json",  data |-> [GoodData EXCEPT !.answer = 4]],
     [kind |-> "json",  data |-> [question |-> "Q", options |-> Opts4, answer |-> 1]],
     [kind |-> "json",  data |-> [options |-> Opts4, answer |-> 1, explanation |-> "E"]],
     [kind |-> "json",  data |-> GoodData],
     [kind |-> "json",  data |-> [question |-> "Q", options |-> Opts4, answer |-> 3,
                                  explanation |-> "E", topic |-> "BIA"]]}

\* the replies of the provider in a session and in a call of get_question
SessionReplies ==
    {[kind |-> "error", msg |-> "Connection error."],
     [kind |-> "json",  data |-> GoodData]}

\* the replies of the provider in a call of get_question: one more, which
\* names a topic of its own
FetchReplies ==
    SessionReplies
    \cup {[kind |-> "json",  data |-> [question |-> "Q", options |-> Opts4, answer |-> 3,
                                       explanation |-> "E", topic |-> "BIA"]]}

\* the used-topic lists of a call of get_question
FetchTopicLists == {<<>>, <<"BIA">>}

GenDomains == {1, 2}

UsedTopicLists ==
    {<<>>,
     <<"BIA">>,
     <<"BIA", "data lifecycle", "risk management", "due care">>,
     <<"BIA", "data lifecycle", "risk management", "due care", "threat modeling">>}

(***************************************************************************)
(* SESSION STATE (src/cissp_app.py:287-307): the values init_session sets. *)
(***************************************************************************)
NoLog == [served |-> <<>>, answered |-> {}, picked |-> <<>>, again |-> FALSE]

init_session ==
    /\ screen = "home"
    /\ cat = None
    /\ questions = <<>>
    /\ current_idx = 0
    /\ selected_answer = None
    /\ show_explanation = FALSE
    /\ flagged = {}
    /\ config = <<>>
    /\ domain_cycle = 0
    /\ used_topics = <<>>
    /\ used_ids = {}
    /\ q_answered = <<>>
    /\ error_msg = None
    /\ expired = FALSE
    /\ rerun = FALSE
    /\ log = NoLog

NoCall == [pc |-> "none"]

(***************************************************************************)
(* SpecBank: one call of get_offline_question on any bank and request.     *)
(***************************************************************************)
InitBank ==
    /\ bank \in Banks
    /\ client = FALSE
    /\ \E d \in BankDomains, t \in Tiers, ids \in SUBSET BankIds :
          off = [pc |-> "call", domain_id |-> d, difficulty |-> t, used_ids |-> ids]
    /\ gen = NoCall
    /\ init_session

OfflineCall ==
    /\ off.pc = "call"
    /\ \E i \in Draws(bank, off.domain_id, off.difficulty, off.used_ids) :
          off' = [pc |-> "done", domain_id |-> off.domain_id,
                  difficulty |-> off.difficulty, used_ids |-> off.used_ids,
                  draw |-> i,
                  result |-> get_offline_question(bank, off.domain_id, off.difficulty,
                                                  off.used_ids, i)]
    /\ UNCHANGED <<procVars, gen, sessVars>>

NextBank == OfflineCall

SpecBank == InitBank /\ [][NextBank]_vars

(***************************************************************************)
(* SpecGen: one call of generate_question_ai, one loop step per action.    *)
(* The call is synchronous: a step that can be taken is taken.             *)
(***************************************************************************)
InitGen ==
    /\ bank = <<>>
    /\ client \in BOOLEAN
    /\ off = NoCall
    /\ \E d \in GenDomains, t \in Tiers, ts \in UsedTopicLists :
          gen = [pc |-> "call", domain_id |-> d, difficulty |-> t, used_topics |-> ts]
    /\ init_session

GenCall ==
    /\ gen.pc = "call"
    /\ \E i \in DOMAIN TopicPool(gen.domain_id, gen.used_topics) :
          gen' = GenBegin(gen.domain_id, gen.difficulty, gen.used_topics, client,
                          TopicPool(gen.domain_id, gen.used_topics)[i])
    /\ UNCHANGED <<procVars, off, sessVars>>

GenAttempt ==
    /\ gen.pc = "attempt"
    /\ \E reply \in Replies : gen' = GenTry(gen, reply)
    /\ UNCHANGED <<procVars, off, sessVars>>

GenSleep ==
    /\ gen.pc = "sleep"
    /\ gen' = GenWait(gen)
    /\ UNCHANGED <<procVars, off, sessVars>>

NextGen == GenCall \/ GenAttempt \/ GenSleep

SpecGen == InitGen /\ [][NextGen]_vars /\ WF_vars(NextGen)

(***************************************************************************)
(* SpecFetch: one call of get_question, for any mode, bank, client and      *)
(* request.                                                                *)
(***************************************************************************)
InitFetch ==
    /\ bank \in Banks
    /\ client \in BOOLEAN
    /\ \E m \in {"hybrid", "offline", "online"}, d \in BankDomains,
          t \in {"easy", "medium"}, ids \in SUBSET BankIds, ts \in FetchTopicLists :
          off = [pc |-> "fetch", mode |-> m, domain_id |-> d, difficulty |-> t,
                 used_topics |-> ts, used_ids |-> ids]
    /\ gen = NoCall
    /\ init_session

FetchCall ==
    /\ off.pc = "fetch"
    /\ \E o \in get_question(bank, client, FetchReplies, off.domain_id, off.difficulty,
                             off.used_topics, off.used_ids, off.mode) :
          off' = [pc |-> "fetched", mode |-> off.mode, domain_id |-> off.domain_id,
                  difficulty |-> off.difficulty, used_topics |-> off.used_topics,
                  used_ids |-> off.used_ids, outcome |-> o]
    /\ UNCHANGED <<procVars, gen, sessVars>>

NextFetch == FetchCall

SpecFetch == InitFetch /\ [][NextFetch]_vars

(***************************************************************************)
(* SpecCat: a CATEngine under update.  The engine starts as                *)
(* CATEngine(tier); a run of up to MaxStreak equal updates (all correct on  *)
(* hard questions, or all incorrect on easy ones) is followed by up to      *)
(* MaxUpdates updates of any tier and outcome.  off holds the starting     *)
(* tier, the two counts and what next_difficulty and stats return after the *)
(* last update.                                                             *)
(***************************************************************************)
Streaks == {<<"hard", TRUE>>, <<"easy", FALSE>>}

Observed(c, start, streak, k, n) ==
    [pc |-> "update", start |-> start, streak |-> streak, k |-> k, n |-> n,
     next |-> next_difficulty(c), stats |-> stats(c)]

InitCat ==
    /\ bank = <<>>
    /\ client = FALSE
    /\ gen = NoCall
    /\ \E start \in Tiers, sk \in Streaks :
          /\ cat = Some(CATEngine(start))
          /\ off = Observed(cat[1], start, sk, 0, 0)
    /\ screen = "home"
    /\ questions = <<>>
    /\ current_idx = 0
    /\ selected_answer = None
    /\ show_explanation = FALSE
    /\ flagged = {}
    /\ config = <<>>
    /\ domain_cycle = 0
    /\ used_topics = <<>>
    /\ used_ids = {}
    /\ q_answered = <<>>
    /\ error_msg = None
    /\ expired = FALSE
    /\ rerun = FALSE
    /\ log = NoLog

CatFrame ==
    UNCHANGED <<procVars, gen, screen, questions, current_idx, selected_answer,
                show_explanation, flagged, config, domain_cycle, used_topics,
                used_ids, q_answered, error_msg, expired, rerun, log>>

\* one more update of the run
CatStreak ==
    /\ off.pc = "update" /\ off.n = 0 /\ off.k < MaxStreak
    /\ cat' = Some(update(cat[1], off.streak[1], off.streak[2]))
    /\ off' = Observed(cat'[1], off.start, off.streak, off.k + 1, 0)
    /\ CatFrame

\* an update of any tier and outcome
CatUpdate ==
    /\ off.pc = "update" /\ off.n < MaxUpdates
    /\ \E difficulty \in Tiers, correct \in BOOLEAN :
          /\ cat' = Some(update(cat[1], difficulty, correct))
          /\ off' = Observed(cat'[1], off.start, off.streak, off.k, off.n + 1)
    /\ CatFrame

NextCat == CatStreak \/ CatUpdate

SpecCat == InitCat /\ [][NextCat]_vars

(***************************************************************************)
(* The session (src/cissp_app.py:310-346, 461-886).  One action is one     *)
(* script run of main(): the screen function runs from its top with at     *)
(* most one widget clicked.  A run that calls st.rerun() leaves rerun set   *)
(* and the next run has no click.  Handlers are functions from the session  *)
(* state S (a record of the session variables) to the set of states the run *)
(* can end in.                                                             *)
(***************************************************************************)
Modes == {"hybrid", "offline", "online"}

SessionDomainLists == {<<1>>, <<1, 2>>}

Configs ==
    [selected_domains : SessionDomainLists, q_count : {MaxQCount},
     start_diff : Tiers, timed : BOOLEAN, mode : Modes]

SessionBanks ==
    {<<>>,
     <<Rec(1, "medium", 1), Rec(1, "hard", 2)>>,
     <<[Rec(2, "medium", 1) EXCEPT !.options = Opts3, !.answer = 2], RecBare>>}

\* the option buttons the user presses
Pressed == {0, 3}

S == [screen |-> screen, cat |-> cat, questions |-> questions,
      current_idx |-> current_idx, selected_answer |-> selected_answer,
      show_explanation |-> show_explanation, flagged |-> flagged, config |-> config,
      domain_cycle |-> domain_cycle, used_topics |-> used_topics, used_ids |-> used_ids,
      q_answered |-> q_answered, error_msg |-> error_msg, expired |-> expired,
      rerun |-> rerun, log |-> log]

Commit(t) ==
    /\ screen' = t.screen
    /\ cat' = t.cat
    /\ questions' = t.questions
    /\ current_idx' = t.current_idx
    /\ selected_answer' = t.selected_answer
    /\ show_explanation' = t.show_explanation
    /\ flagged' = t.flagged
    /\ config' = t.config
    /\ domain_cycle' = t.domain_cycle
    /\ used_topics' = t.used_topics
    /\ used_ids' = t.used_ids
    /\ q_answered' = t.q_answered
    /\ error_msg' = t.error_msg
    /\ expired' = t.expired
    /\ rerun' = t.rerun
    /\ log' = t.log

\* reset_test, and init_session at the top of the run that follows
reset_test(s) ==
    [s EXCEPT !.cat = None, !.questions = <<>>, !.current_idx = 0,
              !.selected_answer = None, !.show_explanation = FALSE, !.flagged = {},
              !.expired = FALSE, !.domain_cycle = 0, !.used_topics = <<>>,
              !.used_ids = {}, !.q_answered = <<>>, !.error_msg = None,
              !.screen = "home", !.log = NoLog]

\* variant of pick_domain: the counter is not used
pick_domainFirst(s) == s.config.selected_domains[1]

\* _pick_domain: the domain returned (domain_cycle is incremented by the caller)
pick_domain(s) ==
    s.config.selected_domains[(s.domain_cycle % Len(s.config.selected_domains)) + 1]

\* the try block of _load_next_question on outcome o of get_question
Loaded(s, o) ==
    LET q == o.q[1] IN
    IF o.ok
    THEN [s EXCEPT !.questions = Append(@, q),
                   !.used_topics = IF q.topic # "" THEN Append(@, q.topic) ELSE @,
                   !.used_ids = IF "id" \in DOMAIN q THEN @ \cup {q.id} ELSE @,
                   !.selected_answer = None,
                   !.show_explanation = FALSE,
                   !.error_msg = None,
                   !.log.served = IF o.raw # None /\ "id" \in DOMAIN o.raw[1]
                                  THEN Append(@, o.raw[1].id) ELSE @]
    ELSE [s EXCEPT !.error_msg = o.msg]

\* _load_next_question: the states it can leave; it returned True in those
\* with error_msg = None
load_next_question(s) ==
    LET difficulty == next_difficulty(s.cat[1])
        domain_id  == pick_domain(s)
        s1         == [s EXCEPT !.domain_cycle = @ + 1,
                                !.log.picked = Append(@, domain_id)]
    IN  IF s.domain_cycle >= MaxFetches THEN {}
        ELSE {Loaded(s1, o) :
                o \in get_question(bank, client, SessionReplies, domain_id, difficulty,
                                   s.used_topics, s.used_ids, s.config.mode)}

LoadedOk(t) == t.error_msg = None

\* variant of start_test: the engine is built with its default tier
start_testDefaultTier(s, cfg) ==
    [s EXCEPT !.config = cfg, !.cat = Some(CATEngine("medium")),
              !.questions = <<>>, !.current_idx = 0, !.domain_cycle = 0,
              !.used_topics = <<>>, !.used_ids = {}, !.q_answered = <<>>,
              !.flagged = {}, !.expired = FALSE, !.screen = "loading",
              !.rerun = TRUE, !.log = [NoLog EXCEPT !.again = s.config # <<>>]]

\* screen_home, Start Test pressed (lines 534-556); a start with a
\* configuration left by an earlier test is noted in the history
start_test(s, cfg) ==
    [s EXCEPT !.config = cfg, !.cat = Some(CATEngine(cfg.start_diff)),
              !.questions = <<>>, !.current_idx = 0, !.domain_cycle = 0,
              !.used_topics = <<>>, !.used_ids = {}, !.q_answered = <<>>,
              !.flagged = {}, !.expired = FALSE, !.screen = "loading",
              !.rerun = TRUE, !.log = [NoLog EXCEPT !.again = s.config # <<>>]]

\* screen_loading (lines 562-593); click is "none", "retry" or "back"
screen_loading(s, click) ==
    {IF LoadedOk(t) THEN [t EXCEPT !.screen = "test", !.rerun = TRUE]
     ELSE IF click = "retry" THEN [t EXCEPT !.rerun = TRUE]
     ELSE IF click = "back" THEN [reset_test(t) EXCEPT !.rerun = TRUE]
     ELSE [t EXCEPT !.rerun = FALSE] :
        t \in load_next_question(s)}

UserAnswer(q) == IF "_user_answer" \in DOMAIN q THEN Some(q._user_answer) ELSE None

\* q["_user_answer"] = v
WithUserAnswer(q, v) ==
    [k \in DOMAIN q \cup {"_user_answer"} |-> IF k = "_user_answer" THEN v ELSE q[k]]

\* the timer check (lines 626-631): TRUE when the run ends in results
TimedOut(s) == s.config.timed /\ s.expired

to_results(s) == [s EXCEPT !.screen = "results", !.rerun = TRUE]

\* variant of answer: the outcome is not appended to q_answered
answerNoOutcome(s, i) ==
    LET q       == s.questions[s.current_idx + 1]
        correct == (i = q.answer)
    IN  [s EXCEPT !.selected_answer = Some(i),
                  !.cat = Some(update(s.cat[1], q.difficulty, correct)),
                  !.show_explanation = TRUE,
                  !.rerun = TRUE,
                  !.log.answered = @ \cup {s.current_idx},
                  !.log.again = FALSE]

\* an answer button (lines 678-686)
answer(s, i) ==
    LET q       == s.questions[s.current_idx + 1]
        correct == (i = q.answer)
    IN  [s EXCEPT !.selected_answer = Some(i),
                  !.cat = Some(update(s.cat[1], q.difficulty, correct)),
                  !.q_answered = Append(@, correct),
                  !.show_explanation = TRUE,
                  !.rerun = TRUE,
                  !.log.answered = @ \cup {s.current_idx},
                  !.log.again = FALSE]

\* Flag (lines 668-670)
flag(s) ==
    [s EXCEPT !.flagged = IF s.current_idx \in @ THEN @ \ {s.current_idx}
                          ELSE @ \cup {s.current_idx},
              !.rerun = TRUE]

\* what Previous and Next restore from the question they move to
restore(s, idx) ==
    [s EXCEPT !.current_idx = idx,
              !.selected_answer = UserAnswer(s.questions[idx + 1]),
              !.show_explanation = UserAnswer(s.questions[idx + 1]) # None,
              !.rerun = TRUE]

\* Previous (lines 720-725)
previous(s) == restore(s, s.current_idx - 1)

\* variant of next: the results follow any confirmed answer
nextToResults(s) ==
    {to_results([s EXCEPT !.questions[s.current_idx + 1] =
                              WithUserAnswer(@, s.selected_answer[1])])}

\* variant of next: the last question is not recognised, another is loaded
nextPastLast(s) ==
    LET idx == s.current_idx
        s1  == [s EXCEPT !.questions[idx + 1] = WithUserAnswer(@, s.selected_answer[1])]
    IN  IF idx + 1 >= Len(s1.questions)
        THEN {[t EXCEPT !.rerun = TRUE] :
                 t \in load_next_question([s1 EXCEPT !.current_idx = idx + 1])}
        ELSE {restore(s1, idx + 1)}

\* Next Question / See Results (lines 728-749)
next(s) ==
    LET idx == s.current_idx
        s1  == [s EXCEPT !.questions[idx + 1] = WithUserAnswer(@, s.selected_answer[1])]
    IN  IF idx + 1 >= s.config.q_count THEN {to_results(s1)}
        ELSE IF idx + 1 >= Len(s1.questions)
        THEN {[t EXCEPT !.rerun = TRUE] :
                 t \in load_next_question([s1 EXCEPT !.current_idx = idx + 1])}
        ELSE {restore(s1, idx + 1)}

\* the widgets of the rendered question that the user presses; Flag, whose
\* set is read by the sidebar only, is pressed in sessions of offline mode
Widgets(s) ==
    {"finish", "home"}
    \cup (IF s.config.mode = "offline" THEN {"flag"} ELSE {})
    \cup (IF s.selected_answer = None THEN {"answer"} ELSE {"next"})
    \cup (IF s.current_idx > 0 THEN {"previous"} ELSE {})

\* screen_test below the fetch, for a state s with a question to show
render_test(s, click, i) ==
    IF TimedOut(s) THEN {to_results(s)}
    ELSE IF click = "finish" THEN {to_results(s)}
    ELSE IF click = "flag" THEN {flag(s)}
    ELSE IF click = "answer" THEN {answer(s, i)}
    ELSE IF click = "previous" THEN {previous(s)}
    ELSE IF click = "next" THEN next(s)
    ELSE IF click = "home" THEN {[reset_test(s) EXCEPT !.rerun = TRUE]}
    ELSE {[s EXCEPT !.rerun = FALSE]}

\* screen_test (lines 599-770); click is "none", "retry" or a widget
screen_test(s, click, i) ==
    IF s.current_idx >= Len(s.questions)
    THEN UNION {IF LoadedOk(t) THEN render_test(t, "none", i)
                ELSE {[t EXCEPT !.rerun = (click = "retry")]} :
                   t \in load_next_question(s)}
    ELSE render_test(s, click, i)

\* screen_results, the domain breakdown (lines 820-826): dom_stats
dom_stats(qs, rs) ==
    [did \in {qs[i].domain_id : i \in DOMAIN qs} |->
        [total   |-> Cardinality({i \in DOMAIN qs : qs[i].domain_id = did}),
         correct |-> Cardinality({i \in DOMAIN qs :
                                    /\ qs[i].domain_id = did
                                    /\ i <= Len(rs) /\ rs[i].correct})]]

(***************************************************************************)
(* Spec: the session.                                                      *)
(***************************************************************************)
Init ==
    /\ bank \in SessionBanks
    /\ client \in BOOLEAN
    /\ (bank # <<>> => client)
    /\ off = NoCall
    /\ gen = NoCall
    /\ init_session

Frame == UNCHANGED <<procVars, off, gen>>

\* the home screen is drawn again
RenderHome ==
    /\ screen = "home" /\ rerun
    /\ Commit([S EXCEPT !.rerun = FALSE])
    /\ Frame

\* Online mode never reads the bank, offline mode and hybrid mode on a bank
\* with records never read the client: the bank is empty in the sessions of
\* online mode that are followed, and Init gives a bank with records a client.
StartTest ==
    /\ screen = "home" /\ ~rerun
    /\ \E cfg \in Configs :
          /\ cfg.mode = "online" => bank = <<>>
          /\ Commit(start_test(S, cfg))
    /\ Frame

\* the loading screen runs: after a rerun, or with Retry or Back pressed
RunLoading ==
    /\ screen = "loading"
    /\ \E click \in IF rerun THEN {"none"} ELSE {"retry", "back"} :
          \E t \in screen_loading(S, click) : Commit(t)
    /\ Frame

\* the test screen runs after a rerun
RenderTest ==
    /\ screen = "test" /\ rerun
    /\ \E t \in screen_test(S, "none", 0) : Commit(t)
    /\ Frame

\* Retry pressed under the error of a failed fetch
RetryTest ==
    /\ screen = "test" /\ ~rerun /\ current_idx >= Len(questions)
    /\ \E t \in screen_test(S, "retry", 0) : Commit(t)
    /\ Frame

\* a widget of the rendered question pressed
ClickTest ==
    /\ screen = "test" /\ ~rerun /\ current_idx < Len(questions)
    /\ \E click \in Widgets(S) \ {"answer"} :
          \E t \in screen_test(S, click, 0) : Commit(t)
    /\ Frame

\* an option button pressed
AnswerTest ==
    /\ screen = "test" /\ ~rerun /\ current_idx < Len(questions)
    /\ "answer" \in Widgets(S)
    /\ Len(cat[1].responses) < MaxResponses
    /\ \E i \in Pressed :
          /\ i < Len(questions[current_idx + 1].options)
          /\ \E t \in screen_test(S, "answer", i) : Commit(t)
    /\ Frame

\* the results screen is drawn after a rerun
RenderResults ==
    /\ screen = "results" /\ rerun
    /\ Commit([S EXCEPT !.rerun = FALSE])
    /\ Frame

\* New Test pressed on the results screen (lines 868-870)
NewTest ==
    /\ screen = "results" /\ ~rerun
    /\ Commit([reset_test(S) EXCEPT !.rerun = TRUE])
    /\ Frame

\* the countdown reaches zero
Tick ==
    /\ screen \in {"loading", "test"} /\ config.timed /\ ~expired
    /\ expired' = TRUE
    /\ UNCHANGED <<procVars, off, gen, screen, cat, questions, current_idx,
                   selected_answer, show_explanation, flagged, config, domain_cycle,
                   used_topics, used_ids, q_answered, error_msg, rerun, log>>

Next ==
    \/ RenderHome \/ StartTest \/ RunLoading \/ RenderTest \/ RetryTest
    \/ ClickTest \/ AnswerTest \/ RenderResults \/ NewTest \/ Tick

Spec == Init /\ [][Next]_vars

(***************************************************************************)
(* Claims on get_offline_question (SpecBank).                              *)
(***************************************************************************)
OffDone == off.pc = "done"

\* The four pools of the fallback chain, as sets of bank positions.
HasUsedId(k) == "id" \in DOMAIN bank[k] /\ bank[k].id \in off.used_ids
OfDomain(k) == "domain" \in DOMAIN bank[k] /\ bank[k].domain = off.domain_id
OfTier(k) == "difficulty" \in DOMAIN bank[k] /\ bank[k].difficulty = off.difficulty
Tier1 == {k \in DOMAIN bank : OfDomain(k) /\ OfTier(k) /\ ~HasUsedId(k)}
Tier2 == {k \in DOMAIN bank : OfDomain(k) /\ ~HasUsedId(k)}
Tier3 == {k \in DOMAIN bank : ~HasUsedId(k)}
Tier4 == DOMAIN bank
FirstTier ==
    IF Tier1 # {} THEN Tier1 ELSE IF Tier2 # {} THEN Tier2
    ELSE IF Tier3 # {} THEN Tier3 ELSE Tier4

\* C3: the result of get_offline_question is built from a record of the first
\* non-empty pool of the chain (domain+difficulty unused, domain unused, any
\* unused, whole bank); when pool 1 is empty and pool 2 is not, the result is
\* of the requested domain.
C3_FallbackChain ==
    (OffDone /\ bank # <<>>) =>
        /\ \E k \in FirstTier :
              off.result = Some(OfflineQuestion(bank[k], off.domain_id, off.difficulty))
        /\ (Tier1 = {} /\ Tier2 # {}) => off.result[1].domain_id = off.domain_id

\* a call served from pool 2 while the bank also holds an unused record that
\* is not of the requested domain
C3_Witness ==
    /\ OffDone /\ Tier1 = {} /\ Tier2 # {}
    /\ Tier3 \ Tier2 # {}
    /\ off.result # None

\* C9: get_offline_question returns None exactly when the bank is empty.
C9_NoneIffEmptyBank ==
    OffDone => (off.result = None <=> bank = <<>>)

\* a call on a non-empty bank all of whose records have a used id: pool 4
C9_Witness ==
    /\ OffDone /\ bank # <<>> /\ Tier3 = {}
    /\ off.result # None

(***************************************************************************)
(* Claims on generate_question_ai (SpecGen).                               *)
(***************************************************************************)
GenStarted == gen.pc \in {"attempt", "sleep", "returned", "raised"}

C4_Safety ==
    (GenStarted /\ client) =>
        /\ gen.calls <= 3
        /\ gen.pc = "attempt"  => gen.calls = gen.attempt - 1 /\ gen.sleeps = gen.calls
        /\ gen.pc = "sleep"    => gen.calls = gen.attempt /\ gen.sleeps = gen.calls - 1
                                  /\ gen.calls < 3
        /\ gen.pc = "returned" => Len(gen.failures) = gen.calls - 1
                                  /\ gen.sleeps = gen.calls - 1 /\ gen.result # None
        /\ gen.pc = "raised"   => gen.calls = 3 /\ Len(gen.failures) = 3
                                  /\ gen.sleeps = 2 /\ gen.error # None

\* C4: a call with a client makes at most 3 provider calls, returns at the
\* first reply that passes validation (every earlier reply failed), sleeps
\* once between two attempts (2 sleeps when all 3 fail, none after the last)
\* and ends by returning a question or raising.
C4_BoundedRetry == []C4_Safety /\ <>GenDone(gen)

\* all three attempts failed
C4_Witness ==
    GenStarted /\ client /\ gen.pc = "raised" /\ gen.calls = 3 /\ gen.sleeps = 2

\* C5: when all 3 attempts fail, the error raised carries str(e) of the third
\* failure.
C5_LastFailureText ==
    (GenStarted /\ client /\ gen.pc = "raised") =>
        /\ Len(gen.failures) = 3
        /\ gen.error = Some(<<ExhaustedMsg, gen.failures[3]>>)

\* three failures whose third text differs from the first two
C5_Witness ==
    /\ GenStarted /\ client /\ gen.pc = "raised"
    /\ gen.failures[3] \notin {gen.failures[1], gen.failures[2]}

\* C10: without a client the call raises at once: no provider call, no sleep.
C10_NoClientRaises ==
    (GenStarted /\ ~client) =>
        /\ gen.pc = "raised"
        /\ gen.calls = 0 /\ gen.sleeps = 0
        /\ gen.error = Some(<<NoClientMsg>>)

C10_Witness == GenStarted /\ ~client /\ gen.pc = "raised"

(***************************************************************************)
(* Claims on get_question (SpecFetch).                                     *)
(***************************************************************************)
Fetched == off.pc = "fetched"

C8_OfflineNeverGenerates ==
    (Fetched /\ off.mode = "offline") =>
        /\ off.outcome.gen_calls = 0
        /\ off.outcome.provider_calls = 0
        /\ off.outcome.sleeps = 0
        /\ off.outcome.offline_calls = 1
        /\ bank = <<>> => ~off.outcome.ok /\ off.outcome.msg = Some(<<EmptyBankMsg>>)

\* an offline call on an empty bank, a client being there
C8_Witness ==
    /\ Fetched /\ off.mode = "offline" /\ client /\ bank = <<>>
    /\ ~off.outcome.ok

(***************************************************************************)
(* Claims on the session (Spec).                                           *)
(***************************************************************************)
\* C1: each loaded question has at most one response record: the number of
\* responses is the number of distinct questions answered and never exceeds
\* the number of questions loaded.
C1_OneResponsePerQuestion ==
    cat # None =>
        /\ Len(cat[1].responses) = Cardinality(log.answered)
        /\ Len(cat[1].responses) <= Len(questions)

BankIdSet == {bank[k].id : k \in {j \in DOMAIN bank : "id" \in DOMAIN bank[j]}}

ServedBefore(j) == {log.served[i] : i \in 1..(j - 1)}

\* C2: in offline and hybrid mode a bank record with an id is served a second
\* time in a session only when every id of the bank has been served.
C2_NoRepeatWhileUnserved ==
    \A j \in DOMAIN log.served :
        log.served[j] \in ServedBefore(j) => BankIdSet \subseteq ServedBefore(j)

\* C6: every question of the session's list has exactly 4 options and a
\* correct-option index in 0..3.
C6_WellFormedQuestions ==
    \A i \in DOMAIN questions :
        Len(questions[i].options) = 4 /\ questions[i].answer \in {0, 1, 2, 3}

\* C11: in a timed session whose deadline has passed, every run of the test
\* screen ends on the results screen, a run whose fetch fails included.
C11_TimerForcesResults ==
    [][(screen = "test" /\ config.timed /\ expired) => screen' = "results"]_vars

(***************************************************************************)
(* Claims on CATEngine (SpecCat).                                          *)
(***************************************************************************)
Engine == off.pc = "update"

\* C12: after every update theta is within [-3, 3]: the engine's theta and
\* the theta of every response record.
C12_ThetaClamped ==
    Engine =>
        /\ cat[1].theta >= -3 * Scale /\ cat[1].theta <= 3 * Scale
        /\ \A i \in DOMAIN cat[1].responses :
              /\ cat[1].responses[i].theta >= -3 * Scale
              /\ cat[1].responses[i].theta <= 3 * Scale

\* an update that the clamp cut: a correct answer given at theta = 3, or an
\* incorrect one given at theta = -3
C12_Witness ==
    /\ Engine /\ off.n > 0
    /\ \E i \in DOMAIN cat[1].responses :
          /\ i > 1
          /\ \/ /\ cat[1].responses[i - 1].theta = 3 * Scale
                /\ cat[1].responses[i].correct
                /\ cat[1].responses[i].theta = 3 * Scale
             \/ /\ cat[1].responses[i - 1].theta = -3 * Scale
                /\ ~cat[1].responses[i].correct
                /\ cat[1].responses[i].theta = -3 * Scale

\* C13: next_difficulty is determined by the number of responses and theta:
\* medium with fewer than 2 responses, otherwise hard from theta = 0.8 up,
\* easy from theta = -0.8 down, medium in between.
C13_NextDifficulty ==
    Engine =>
        LET count == Len(cat[1].responses)
            theta == cat[1].theta
        IN  /\ count < 2 => off.next = "medium"
            /\ (count >= 2 /\ 10 * theta >= 8 * Scale) => off.next = "hard"
            /\ (count >= 2 /\ 10 * theta <= -8 * Scale) => off.next = "easy"
            /\ (count >= 2 /\ 10 * theta < 8 * Scale /\ 10 * theta > -8 * Scale)
                  => off.next = "medium"

\* the warm-up: one response, theta above 0.8, and medium is returned
C13_Witness ==
    /\ Engine /\ Len(cat[1].responses) = 1
    /\ 10 * cat[1].theta >= 8 * Scale
    /\ off.next = "medium"

(***************************************************************************)
(* Claims on the session (Spec), continued.                                *)
(***************************************************************************)
\* the number of positions of window i..(i + len - 1) of log.picked holding d
PickedIn(i, len, d) == Cardinality({j \in i..(i + len - 1) : log.picked[j] = d})

\* C14: the k-th call of _pick_domain of a session (k from 0) returns
\* selected_domains[k mod n] and the counter is the number of calls made; in
\* every window of calls whose length is a multiple of n all selected domains
\* are returned the same number of times.
C14_RoundRobin ==
    log.picked # <<>> =>
        LET domains == config.selected_domains
            n       == Len(domains)
            calls   == Len(log.picked)
        IN  /\ domain_cycle = calls
            /\ \A k \in 0..(calls - 1) : log.picked[k + 1] = domains[(k % n) + 1]
            /\ \A i \in 1..calls, m \in 1..calls :
                  i + m * n - 1 <= calls =>
                      \A a \in 1..n, b \in 1..n :
                          PickedIn(i, m * n, domains[a]) = PickedIn(i, m * n, domains[b])

\* two domains selected and a third call, which wraps around to the first
C14_Witness ==
    /\ Len(log.picked) >= 3
    /\ Len(config.selected_domains) = 2
    /\ log.picked[3] = config.selected_domains[1]
    /\ log.picked[2] = config.selected_domains[2]

(***************************************************************************)
(* Claims on generate_question_ai (SpecGen), continued.                    *)
(***************************************************************************)
\* the topics at the last 4 positions of the used-topic list of the call
Window == {gen.used_topics[i] : i \in Max(1, Len(gen.used_topics) - 3)..Len(gen.used_topics)}

Candidates == Range(DOMAINS[gen.domain_id]) \ Window

\* C15: the topic of a generation request is one of the domain's topics that
\* are not among the last 4 entries of the used-topic list, whatever domain
\* those entries came from; it is drawn from all topics of the domain only
\* when no such topic is left.  The window holds at most 4 topics.
C15_TopicRotation ==
    (GenStarted /\ gen.topic # None) =>
        /\ Cardinality(Window) <= 4
        /\ Candidates # {} => gen.topic[1] \in Candidates
        /\ Candidates = {} => gen.topic[1] \in Range(DOMAINS[gen.domain_id])

\* a list of 5 used topics of two domains: the topic drawn is the first of the
\* list, which has left the window
C15_Witness ==
    /\ GenStarted /\ gen.topic # None
    /\ Len(gen.used_topics) = 5
    /\ gen.topic[1] = gen.used_topics[1]
    /\ \E i \in 2..5 : gen.used_topics[i] \notin Range(DOMAINS[gen.domain_id])

(***************************************************************************)
(* Claims on get_question (SpecFetch), continued.                          *)
(***************************************************************************)
\* the topics at the last 4 positions of the used-topic list of the fetch
FetchWindow ==
    {off.used_topics[i] : i \in Max(1, Len(off.used_topics) - 3)..Len(off.used_topics)}

\* C16: in online mode the topic of a generated question is none of the 4
\* topics most recently recorded in the used-topic list before the fetch.
C16_NoImmediateRepeat ==
    (Fetched /\ off.mode = "online" /\ off.outcome.ok) =>
        off.outcome.q[1].topic \notin FetchWindow

(***************************************************************************)
(* Claims on the results screen (Spec).                                    *)
(***************************************************************************)
RECURSIVE SumTotal(_, _)
SumTotal(ds, dids) ==
    IF dids = {} THEN 0
    ELSE LET did == CHOOSE x \in dids : TRUE
         IN  ds[did].total + SumTotal(ds, dids \ {did})

RECURSIVE SumCorrect(_, _)
SumCorrect(ds, dids) ==
    IF dids = {} THEN 0
    ELSE LET did == CHOOSE x \in dids : TRUE
         IN  ds[did].correct + SumCorrect(ds, dids \ {did})

\* C17: on the results screen the per-domain totals add up to stats().total
\* and the per-domain correct counts to stats().correct.
C17_DomainBreakdown ==
    screen = "results" =>
        LET ds == dom_stats(questions, cat[1].responses)
        IN  /\ SumTotal(ds, DOMAIN ds) = stats(cat[1]).total
            /\ SumCorrect(ds, DOMAIN ds) = stats(cat[1]).correct

\* a run in which the deadline of a timed session is found passed
ByTimer == config.timed /\ expired

\* a click-run on a rendered question that leaves it and the engine as they
\* are: Finish
ByFinish ==
    /\ ~rerun /\ current_idx < Len(questions)
    /\ UNCHANGED <<questions, cat, current_idx, selected_answer>>

\* a click-run that confirms the answered last question: See Results
ByLastQuestion ==
    /\ ~rerun /\ current_idx < Len(questions)
    /\ selected_answer # None
    /\ current_idx + 1 >= config.q_count
    /\ questions' = [questions EXCEPT ![current_idx + 1] =
                                         WithUserAnswer(@, selected_answer[1])]

\* C18: the screen becomes results only in a run of the test screen, and only
\* by the confirmed answer of the last question, by Finish, or by the timer.
C18_ResultsOnlyByThree ==
    [][(screen # "results" /\ screen' = "results") =>
          (screen = "test" /\ (ByLastQuestion \/ ByFinish \/ ByTimer))]_vars

\* the results reached from the confirmed answer of the last question, in a
\* session without timer
C18_Witness ==
    /\ screen = "results" /\ ~config.timed
    /\ Len(questions) = config.q_count
    /\ "_user_answer" \in DOMAIN questions[config.q_count]

(***************************************************************************)
(* Claims on CATEngine (SpecCat), continued.                               *)
(***************************************************************************)
\* C19: theta_history of stats() has total + 1 elements, the first is 0.0
\* and element i + 1 is the theta recorded by the i-th update.
C19_ThetaHistory ==
    Engine =>
        LET h == off.stats.theta_history IN
        /\ off.stats.total = Len(cat[1].responses)
        /\ Len(h) = off.stats.total + 1
        /\ h[1] = 0
        /\ \A i \in 1..off.stats.total : h[i + 1] = cat[1].responses[i].theta

\* an engine started at the hard tier (the first theta recorded is above 1)
\* with two updates: its history starts at 0 all the same
C19_Witness ==
    /\ Engine /\ off.stats.total >= 2
    /\ off.stats.theta_history[1] = 0
    /\ off.stats.theta_history[2] > Scale

\* C20: from theta = 0.0, where p = 0.625 on a medium question, a correct
\* answer to a medium question gives theta = 0.15 and an incorrect one
\* theta = -0.25; every update appends one response record, which holds the
\* resulting theta.
C20_FirstStep ==
    Engine =>
        LET rs == cat[1].responses IN
        /\ Len(rs) = off.k + off.n
        /\ rs # <<>> => rs[Len(rs)].theta = cat[1].theta
        /\ (off.start = "medium" /\ rs # <<>> /\ rs[1].difficulty = "medium") =>
              /\ probability(CATEngine("medium"), 0) = (625 * Scale) \div 1000
              /\ rs[1].correct => rs[1].theta = (15 * Scale) \div 100
              /\ ~rs[1].correct => rs[1].theta = -((25 * Scale) \div 100)

\* the engine started at medium after one correct answer to a medium question
C20_Witness ==
    /\ Engine /\ off.start = "medium" /\ off.n = 1 /\ off.k = 0
    /\ cat[1].responses =
          <<[difficulty |-> "medium", correct |-> TRUE, theta |-> (15 * Scale) \div 100]>>
    /\ cat[1].theta = (15 * Scale) \div 100

(***************************************************************************)
(* Claims on the session (Spec): responses and questions.                  *)
(***************************************************************************)
\* C21: response record i belongs to question i of the list: there is such a
\* question, the record has its tier, and its correct flag is that of the
\* user's answer to the question (the stored one, or the one selected when
\* the question is the current one).
C21_ResponsesAligned ==
    cat # None =>
        \A i \in DOMAIN cat[1].responses :
            /\ i <= Len(questions)
            /\ LET q == questions[i]
                   r == cat[1].responses[i]
               IN  /\ r.difficulty = q.difficulty
                   /\ "_user_answer" \in DOMAIN q =>
                         r.correct = (q._user_answer = q.answer)
                   /\ (i = current_idx + 1 /\ selected_answer # None) =>
                         r.correct = (selected_answer[1] = q.answer)

\* a run in which _load_next_question was called and returned False
FetchFailed == Len(log'.picked) = Len(log.picked) + 1 /\ error_msg' # None

\* C22: a failed fetch leaves the number of questions, used_topics, used_ids
\* and the round-robin counter as they were, so that the retry asks for the
\* domain of the failed attempt.
C22_FailedFetchFrame ==
    [][FetchFailed =>
          /\ Len(questions') = Len(questions)
          /\ UNCHANGED <<used_topics, used_ids, domain_cycle>>]_vars

(***************************************************************************)
(* Claims on CATEngine (SpecCat): the direction of an update.              *)
(***************************************************************************)
\* theta before update i of the engine
ThetaBefore(i) ==
    IF i = 1 THEN DIFFICULTIES[off.start].theta ELSE cat[1].responses[i - 1].theta

\* theta from -3 to 3 in steps of 0.1
ThetaGrid == {(i * Scale) \div 10 : i \in -30..30}

\* update, on an engine of the given theta, moves theta the way of the answer
MovesRight(th, difficulty) ==
    LET c    == [theta |-> th, responses |-> <<>>]
        up   == update(c, difficulty, TRUE).theta
        down == update(c, difficulty, FALSE).theta
    IN  /\ up >= th /\ (th < 3 * Scale => up > th)
        /\ down <= th /\ (th > -3 * Scale => down < th)

\* C23: a correct answer never lowers theta and an incorrect one never raises
\* it; theta moves strictly unless it is held at the bound it moves towards.
\* Stated of every update an engine has made, and of update at every theta of
\* the grid and every tier.
C23_Monotone ==
    Engine =>
        /\ cat[1].responses = <<>> =>
              \A th \in ThetaGrid, difficulty \in Tiers : MovesRight(th, difficulty)
        /\ \A i \in DOMAIN cat[1].responses :
               LET before == ThetaBefore(i)
                   after  == cat[1].responses[i].theta
               IN  IF cat[1].responses[i].correct
                   THEN /\ after >= before
                        /\ before < 3 * Scale => after > before
                   ELSE /\ after <= before
                        /\ before > -3 * Scale => after < before

\* five consecutive correct answers from the medium start, theta strictly
\* increasing and still below 3
C23_Witness ==
    /\ Engine /\ off.start = "medium" /\ Len(cat[1].responses) >= 5
    /\ \A i \in 1..5 :
          /\ cat[1].responses[i].correct
          /\ cat[1].responses[i].theta > ThetaBefore(i)
          /\ cat[1].responses[i].theta < 3 * Scale

\* ---------------------------------------------------------------------------
\* Claims on the session (Spec): the outcomes kept by the shell.

\* C24: the outcomes kept in q_answered and the engine's history agree: they
\* have the same length and q_answered[i] is the correct field of the i-th
\* response; without an engine there are no outcomes.
C24_OutcomesAgree ==
    IF cat = None THEN q_answered = <<>>
    ELSE /\ Len(q_answered) = Len(cat[1].responses)
         /\ \A i \in DOMAIN q_answered : q_answered[i] = cat[1].responses[i].correct

\* two answers were given, one correct and one not
C24_Witness ==
    /\ cat # None
    /\ Len(q_answered) >= 2
    /\ q_answered[1] # q_answered[2]
    /\ Len(cat[1].responses) = Len(q_answered)

\* C25: no more questions are loaded than the configured target: the list is
\* never longer than q_count and the index never passes q_count - 1; before
\* the first start there is no configuration and nothing is loaded.
C25_WithinTarget ==
    IF config = <<>> THEN questions = <<>> /\ current_idx = 0
    ELSE /\ Len(questions) <= config.q_count
         /\ current_idx <= config.q_count - 1

\* the last question of a test of two is displayed, after a fetch that failed
\* (more domains were picked than questions loaded)
C25_Witness ==
    /\ screen = "test"
    /\ config # <<>>
    /\ config.q_count >= 2
    /\ Len(questions) = config.q_count
    /\ current_idx = config.q_count - 1
    /\ Len(log.picked) > Len(questions)

\* ---------------------------------------------------------------------------
\* Claims on CATEngine (SpecCat): the tier requested from one question to the
\* next.

\* the engine as it was before its last update
EngineBefore ==
    LET rs == cat[1].responses IN
    [theta |-> ThetaBefore(Len(rs)), responses |-> SubSeq(rs, 1, Len(rs) - 1)]

\* C26: two calls of next_difficulty separated by exactly one update never
\* return easy then hard, nor hard then easy.
C26_NoTierJump ==
    [][/\ cat' # cat
       /\ Len(cat'[1].responses) = Len(cat[1].responses) + 1
       => <<next_difficulty(cat[1]), next_difficulty(cat'[1])>>
             \notin {<<"easy", "hard">>, <<"hard", "easy">>}]_vars

\* the tier flipped on consecutive questions: hard was requested, and after
\* one incorrect answer medium is
C26_Witness ==
    /\ Engine
    /\ Len(cat[1].responses) >= 3
    /\ next_difficulty(EngineBefore) = "hard"
    /\ off.next = "medium"
    /\ ~cat[1].responses[Len(cat[1].responses)].correct

\* ---------------------------------------------------------------------------
\* Claims on the session (Spec): the start of a test.

\* C27: Start Test leaves a fresh session, whatever came before: theta is the
\* anchor of the chosen starting tier, the response history, the question
\* list, used_topics, used_ids and q_answered are empty, the domain counter
\* and the index are 0; and the loading screen hands the test screen one
\* question at index 0 with no selected answer and an engine without
\* responses at that anchor.
C27_FreshStart ==
    [][/\ (screen = "home" /\ screen' = "loading") =>
             /\ cat' # None
             /\ cat'[1].theta = DIFFICULTIES[config'.start_diff].theta
             /\ cat'[1].responses = <<>>
             /\ questions' = <<>>
             /\ used_topics' = <<>>
             /\ used_ids' = {}
             /\ q_answered' = <<>>
             /\ domain_cycle' = 0
             /\ current_idx' = 0
       /\ (screen = "loading" /\ screen' = "test") =>
             /\ Len(questions') = 1
             /\ current_idx' = 0
             /\ selected_answer' = None
             /\ ~show_explanation'
             /\ q_answered' = <<>>
             /\ cat'[1].theta = DIFFICULTIES[config'.start_diff].theta
             /\ cat'[1].responses = <<>>]_vars

\* the first question of a test started after an earlier one is displayed,
\* unanswered, the engine at the anchor of a starting tier other than the
\* default
C27_Witness ==
    /\ screen = "test"
    /\ log.again
    /\ config.start_diff = "hard"
    /\ Len(questions) = 1
    /\ current_idx = 0
    /\ selected_answer = None
    /\ cat[1].theta = DIFFICULTIES["hard"].theta
    /\ cat[1].responses = <<>>

====
